---------------------------- MODULE Spec2Model ----------------------------
(***************************************************************************)
(* State-machine model of the three pi programs of mahdialmusaad/pi-calcs: *)
(*   pi_mcarlo.c      Monte Carlo sampling with a per-thread results table *)
(*   pi_infseries.c   five infinite series, single or one thread each      *)
(*   pi_chudnovsky.c  Chudnovsky series by binary splitting                *)
(* with the thread primitive of c_threads.h.  Each program has its own     *)
(* specification (SpecMC, SpecSeries, SpecSplit, SpecChud); the variables  *)
(* of the other programs stay at their idle values.                        *)
(***************************************************************************)
EXTENDS Integers, Sequences, FiniteSets, TLC

VARIABLES
  \* ---- pi_mcarlo.c
  mc_pc,            \* position of main: start, sampling, report, done
  mc_argv,          \* [argc, points, threads]: the command line
  num_iterations,   \* static counter_t num_iterations
  num_threads,      \* const long num_threads
  thread_results,   \* counter_t thread_results[num_threads][2]
  mc_local,         \* index of the slot local_results points to
  mc_i,             \* loop counter i of the sampler run by main
  mc_workers,       \* slots for which pidef_create_thread was called
  mc_writers,       \* slot -> set of threads that incremented a counter of it
  mc_out,           \* the totals printed: <<[inside, outside]>>, <<>> before
  mc_exit,          \* exit status of the process, -1 while running
  \* ---- pi_infseries.c
  s_pc,             \* position of main
  s_argv,           \* [argc, choice, terms]: the command line
  is_all_series,    \* const int is_all_series
  given_series_value,
  given_terms_count,\* terms_t (long), as a Long value
  s_i,              \* loop counter of the create loop and of the join loop
  task,             \* series index -> the malloc'ed thread_series_data
  thread_handlers,  \* series index -> "uninit" | "thread"
  ex,               \* executor -> state of its do_series_thread / do_series
  lines,            \* series index -> number of result lines printed
  createCalls,      \* series index -> calls of pidef_create_thread
  joinCalls,        \* series index -> calls of pidef_join_thread on its handle
  freeCalls,        \* series index -> calls of free on its task
  violations,       \* memory-discipline violations observed so far
  s_exit,           \* exit status of the process, -1 while running
  \* ---- pi_chudnovsky.c
  ch_pc,            \* position of main (or of the direct call)
  ch_argv,          \* [argc, malformed, value]: the command line
  digits,           \* const long digits
  ch_a, ch_b,       \* arguments of the outermost chudnovsky_binarysplit call
  stack,            \* call stack of chudnovsky_binarysplit, innermost first
  ret,              \* <<value>> returned by the call that just returned, else <<>>
  baseOrder,        \* the a of every base case evaluated, in order
  maxDepth,         \* deepest nesting of calls below the outermost one
  ch_printed,       \* the approximation line was printed
  ch_exit           \* exit status of the process, -1 while running

mcVars == <<mc_pc, mc_argv, num_iterations, num_threads, thread_results,
            mc_local, mc_i, mc_workers, mc_writers, mc_out, mc_exit>>
serVars == <<s_pc, s_argv, is_all_series, given_series_value,
             given_terms_count, s_i, task, thread_handlers, ex, lines,
             createCalls, joinCalls, freeCalls, violations, s_exit>>
chVars == <<ch_pc, ch_argv, digits, ch_a, ch_b, stack, ret, baseOrder,
            maxDepth, ch_printed, ch_exit>>
vars == <<mcVars, serVars, chVars>>

None == "none"
EXIT_SUCCESS == 0
EXIT_FAILURE == 1

(***************************************************************************)
(*                         pi_mcarlo.c                                     *)
(***************************************************************************)
MaxPoints == 4
MaxThreads == 3

\* Thread identities: main, and the worker bound to slot i.
MainThread == "main"
Worker(i) == <<"worker", i>>

\* The value the preprocessor gives the identifier num_threads in
\*   #if num_threads > 1
\* num_threads is a variable of main, not a macro, so in a preprocessor
\* condition it is replaced by 0 (C11 6.10.1p4).
PP_num_threads == 0
\* Whether the text between  #if num_threads > 1  and  #endif  is compiled.
ThreadsBlockCompiled == PP_num_threads > 1

McIdle ==
  /\ mc_pc = "idle" /\ mc_argv = None /\ num_iterations = 0
  /\ num_threads = 0 /\ thread_results = <<>> /\ mc_local = 0 /\ mc_i = 0
  /\ mc_workers = {} /\ mc_writers = <<>> /\ mc_out = <<>> /\ mc_exit = -1

McInit ==
  /\ mc_pc = "start"
  /\ mc_argv \in [argc : {2, 3}, points : 0..MaxPoints, threads : 1..MaxThreads]
  /\ num_iterations = 0 /\ num_threads = 0 /\ thread_results = <<>>
  /\ mc_local = 0 /\ mc_i = 0 /\ mc_workers = {} /\ mc_writers = <<>>
  /\ mc_out = <<>> /\ mc_exit = -1

\* if (argc != 3) { usage; return EXIT_FAILURE; }
MC_Usage ==
  /\ mc_pc = "start" /\ mc_argv.argc # 3
  /\ mc_pc' = "done" /\ mc_exit' = EXIT_FAILURE
  /\ UNCHANGED <<mc_argv, num_iterations, num_threads, thread_results,
                 mc_local, mc_i, mc_workers, mc_writers, mc_out>>
  /\ UNCHANGED <<serVars, chVars>>

\* The workers main creates before it samples: the loop over
\* i < num_threads - 1 is compiled only with ThreadsBlockCompiled.
CreatedWorkers(K) == IF ThreadsBlockCompiled THEN 0..(K - 2) ELSE {}

\* The slot main samples into: thread_results[num_threads - 1].
LocalSlot(K) == K - 1

\* main from the strtoul/strtol calls to the call of approximate_pi_mcarlo:
\* the table is zeroed, the compiled part of the create loop runs,
\* local_results is bound and the sampler starts with i = 0.
MC_Setup ==
  /\ mc_pc = "start" /\ mc_argv.argc = 3
  /\ num_iterations' = mc_argv.points
  /\ num_threads' = mc_argv.threads
  /\ thread_results' = [s \in 0..(mc_argv.threads - 1) |-> [c \in {0, 1} |-> 0]]
  /\ mc_writers' = [s \in 0..(mc_argv.threads - 1) |-> {}]
  /\ mc_workers' = CreatedWorkers(mc_argv.threads)
  /\ mc_local' = LocalSlot(mc_argv.threads)
  /\ mc_i' = 0
  /\ mc_pc' = "sampling"
  /\ UNCHANGED <<mc_argv, mc_out, mc_exit>>
  /\ UNCHANGED <<serVars, chVars>>

\* No action models a worker thread running approximate_pi_mcarlo: the only
\* call of pidef_create_thread is in the text the preprocessor removes.

\* One iteration of the sampler's for loop, run by main on local_results:
\* the comparison (x*x + y*y < 1.0) yields 1 (inside) or 0 (outside) and
\* that counter of the slot is incremented.
MC_Sample ==
  /\ mc_pc = "sampling" /\ mc_i < num_iterations
  /\ \E inside \in {0, 1} :
       thread_results' = [thread_results EXCEPT ![mc_local][inside] = @ + 1]
  /\ mc_writers' = [mc_writers EXCEPT ![mc_local] = @ \cup {MainThread}]
  /\ mc_i' = mc_i + 1
  /\ UNCHANGED <<mc_pc, mc_argv, num_iterations, num_threads, mc_local,
                 mc_workers, mc_out, mc_exit>>
  /\ UNCHANGED <<serVars, chVars>>

\* The sampler's loop ends (i = num_iterations) and it returns to main.
MC_SampleReturn ==
  /\ mc_pc = "sampling" /\ mc_i >= num_iterations
  /\ mc_pc' = "report"
  /\ UNCHANGED <<mc_argv, num_iterations, num_threads, thread_results,
                 mc_local, mc_i, mc_workers, mc_writers, mc_out, mc_exit>>
  /\ UNCHANGED <<serVars, chVars>>

\* The totals main holds when it prints: the joins and the reduction loop
\* are between  #if num_threads > 1  and  #endif  too.
RECURSIVE SumSlots(_, _, _)
SumSlots(tr, S, c) ==
  IF S = {} THEN 0
  ELSE LET s == CHOOSE x \in S : TRUE IN tr[s][c] + SumSlots(tr, S \ {s}, c)

Reduced(tr, K, c) ==
  IF ThreadsBlockCompiled THEN SumSlots(tr, 0..(K - 1), c) ELSE tr[K - 1][c]

\* printf of local_results[1] (inside) and local_results[0] (outside);
\* return 0.
MC_Report ==
  /\ mc_pc = "report"
  /\ mc_out' = <<[inside |-> Reduced(thread_results, num_threads, 1),
                  outside |-> Reduced(thread_results, num_threads, 0)]>>
  /\ mc_pc' = "done" /\ mc_exit' = 0
  /\ UNCHANGED <<mc_argv, num_iterations, num_threads, thread_results,
                 mc_local, mc_i, mc_workers, mc_writers>>
  /\ UNCHANGED <<serVars, chVars>>


McNext == MC_Usage \/ MC_Setup \/ MC_Sample \/ MC_SampleReturn \/ MC_Report

(***************************************************************************)
(*                         pi_infseries.c                                  *)
(***************************************************************************)
MaxTerms == 2

\* count_series_functions: the number of entries of series_function_data.
count_series_functions == 5
Series == 0..(count_series_functions - 1)
\* Executors of do_series: the worker thread of each series, and main
\* itself (single mode).
MainExec == count_series_functions
Executors == 0..count_series_functions

\* A C long (terms_t, 64 bits) is the pair [h, l] standing for
\* h * 2^31 + l with 0 <= l <= INT_MAX; an int is a long with h in {-1, 0}.
INT_MAX == 2147483647
Long(h, l) == [h |-> h, l |-> l]
LongIsZero(v) == v.h = 0 /\ v.l = 0
LongIsPositive(v) == v.h > 0 \/ (v.h = 0 /\ v.l > 0)
\* --v
LongDec(v) == IF v.l = 0 THEN Long(v.h - 1, INT_MAX) ELSE Long(v.h, v.l - 1)
\* A small natural number as a long.
LongOfNat(n) == Long(0, n)

\* The conversion of a long argument to the int parameter given_terms_count
\* of do_series: the low 32 bits are kept (bit 31, the parity of h, becomes
\* the sign), as every mainstream compiler defines the conversion.
ToInt(v) == Long(IF v.h % 2 = 0 THEN 0 ELSE -1, v.l)
\* The conversion of that int back to the terms_t parameter of a series
\* function: sign extension, which keeps the value.
IntToLong(v) == v

\* Values of strtol(argv[2]) above the int range: 2^31, 2^32 and 2^32 + 1.
HighInputs == {Long(1, 0), Long(2, 0), Long(2, 1)}
\* What strtol(argv[2]) returns in the model: 0..MaxTerms, -1, HighInputs.
TermInputs ==
  {LongOfNat(n) : n \in 0..MaxTerms} \cup {Long(-1, INT_MAX)} \cup HighInputs
\* argv[1]: a word starting with 'a' (all), or what strtol makes of it.
ChoiceInputs ==
  {[all |-> TRUE, value |-> 0]}
    \cup {[all |-> FALSE, value |-> v] : v \in 0..(count_series_functions + 1)}

\* The loop of a series function is followed for at most IterCap iterations.
IterCap == MaxTerms + 1

NoTask == [state |-> "unalloc", series_index |-> -1, terms_count |-> Long(0, 0)]
NoExec == [pc |-> "none", series_index |-> -1, terms_count |-> Long(0, 0),
           callTerms |-> Long(0, 0), terms |-> Long(0, 0), iters |-> 0]

SerIdle ==
  /\ s_pc = "idle" /\ s_argv = None /\ is_all_series = FALSE
  /\ given_series_value = 0 /\ given_terms_count = Long(0, 0) /\ s_i = 0
  /\ task = <<>> /\ thread_handlers = <<>> /\ ex = <<>> /\ lines = <<>>
  /\ createCalls = <<>> /\ joinCalls = <<>> /\ freeCalls = <<>>
  /\ violations = {} /\ s_exit = -1

SerInit ==
  /\ s_pc = "start"
  /\ s_argv \in [argc : {2, 3}, choice : ChoiceInputs, terms : TermInputs]
  /\ is_all_series = FALSE /\ given_series_value = 0
  /\ given_terms_count = Long(0, 0) /\ s_i = 0
  /\ task = [i \in Series |-> NoTask]
  /\ thread_handlers = [i \in Series |-> "uninit"]
  /\ ex = [e \in Executors |-> NoExec]
  /\ lines = [i \in Series |-> 0]
  /\ createCalls = [i \in Series |-> 0]
  /\ joinCalls = [i \in Series |-> 0]
  /\ freeCalls = [i \in Series |-> 0]
  /\ violations = {} /\ s_exit = -1

\* The process is running: main has not returned and nothing has crashed.
Alive == s_exit = -1 /\ s_pc \notin {"crashed", "idle"}

\* if (argc != 3) { usage; return EXIT_FAILURE; }
S_Usage ==
  /\ s_pc = "start" /\ s_argv.argc # 3
  /\ s_pc' = "done" /\ s_exit' = EXIT_FAILURE
  /\ UNCHANGED <<s_argv, is_all_series, given_series_value, given_terms_count,
                 s_i, task, thread_handlers, ex, lines, createCalls,
                 joinCalls, freeCalls, violations>>
  /\ UNCHANGED <<mcVars, chVars>>

\* is_all_series, given_series_value and the range check of the index.
S_Choice ==
  /\ s_pc = "start" /\ s_argv.argc = 3
  /\ LET all == s_argv.choice.all
         val == IF all THEN -1 ELSE s_argv.choice.value
         bad == ~all /\ (val < 1 \/ val > count_series_functions)
     IN /\ is_all_series' = all
        /\ given_series_value' = val
        /\ s_pc' = IF bad THEN "done" ELSE "terms"
        /\ s_exit' = IF bad THEN EXIT_FAILURE ELSE s_exit
  /\ UNCHANGED <<s_argv, given_terms_count, s_i, task, thread_handlers, ex,
                 lines, createCalls, joinCalls, freeCalls, violations>>
  /\ UNCHANGED <<mcVars, chVars>>

\* given_terms_count = strtol(argv[2]); values <= 0 are refused; otherwise
\* the header is printed and main goes on to the single call or the fan-out.
S_Terms ==
  /\ s_pc = "terms"
  /\ given_terms_count' = s_argv.terms
  /\ IF ~LongIsPositive(s_argv.terms)
     THEN s_pc' = "done" /\ s_exit' = EXIT_FAILURE
     ELSE s_pc' = (IF is_all_series THEN "spawn" ELSE "single")
          /\ s_exit' = s_exit
  /\ s_i' = 0
  /\ UNCHANGED <<s_argv, is_all_series, given_series_value, task,
                 thread_handlers, ex, lines, createCalls, joinCalls,
                 freeCalls, violations>>
  /\ UNCHANGED <<mcVars, chVars>>

\* do_series(series_index, given_terms_count) up to the call of the series
\* function: the terms argument passes through the int parameter.
do_series_call(e, series_index, terms_count) ==
  LET arg == IntToLong(ToInt(terms_count))
  IN [ex[e] EXCEPT !.pc = "loop", !.series_index = series_index,
                   !.callTerms = arg, !.terms = arg, !.iters = 0]

\* Single mode: do_series(given_series_value - 1, given_terms_count).
S_Single ==
  /\ s_pc = "single" /\ ex[MainExec].pc = "none"
  /\ ex' = [ex EXCEPT ![MainExec] =
              do_series_call(MainExec, given_series_value - 1, given_terms_count)]
  /\ UNCHANGED <<s_pc, s_argv, is_all_series, given_series_value,
                 given_terms_count, s_i, task, thread_handlers, lines,
                 createCalls, joinCalls, freeCalls, violations, s_exit>>
  /\ UNCHANGED <<mcVars, chVars>>

\* do_series has returned to main: return EXIT_SUCCESS.
S_SingleReturn ==
  /\ s_pc = "single" /\ ex[MainExec].pc = "done"
  /\ s_pc' = "done" /\ s_exit' = EXIT_SUCCESS
  /\ UNCHANGED <<s_argv, is_all_series, given_series_value, given_terms_count,
                 s_i, task, thread_handlers, ex, lines, createCalls,
                 joinCalls, freeCalls, violations>>
  /\ UNCHANGED <<mcVars, chVars>>

\* One pass of the create loop in which malloc returns NULL: the
\* diagnostic is printed and the series is skipped (continue).
S_SpawnSkip ==
  /\ s_pc = "spawn" /\ s_i < count_series_functions
  /\ task' = [task EXCEPT ![s_i].state = "failed"]
  /\ s_i' = s_i + 1
  /\ UNCHANGED <<s_pc, s_argv, is_all_series, given_series_value,
                 given_terms_count, thread_handlers, ex, lines, createCalls,
                 joinCalls, freeCalls, violations, s_exit>>
  /\ UNCHANGED <<mcVars, chVars>>

\* pidef_create_thread(thread_id, function, argument): pthread_create
\* stores the new thread's id in *thread_id and starts function(argument).
pidef_create_thread(i) ==
  /\ thread_handlers' = [thread_handlers EXCEPT ![i] = "thread"]
  /\ createCalls' = [createCalls EXCEPT ![i] = @ + 1]
  /\ ex' = [ex EXCEPT ![i].pc = "entry"]

\* One pass of the create loop in which malloc succeeds: the task is
\* filled in and handed to a new thread running do_series_thread.
S_Spawn ==
  /\ s_pc = "spawn" /\ s_i < count_series_functions
  /\ task' = [task EXCEPT ![s_i] = [state |-> "live", series_index |-> s_i,
                                    terms_count |-> given_terms_count]]
  /\ pidef_create_thread(s_i)
  /\ s_i' = s_i + 1
  /\ UNCHANGED <<s_pc, s_argv, is_all_series, given_series_value,
                 given_terms_count, lines, joinCalls, freeCalls, violations,
                 s_exit>>
  /\ UNCHANGED <<mcVars, chVars>>

\* The create loop ends; the join loop starts at i = 0.
S_SpawnEnd ==
  /\ s_pc = "spawn" /\ s_i = count_series_functions
  /\ s_pc' = "join" /\ s_i' = 0
  /\ UNCHANGED <<s_argv, is_all_series, given_series_value, given_terms_count,
                 task, thread_handlers, ex, lines, createCalls, joinCalls,
                 freeCalls, violations, s_exit>>
  /\ UNCHANGED <<mcVars, chVars>>

\* (mutant) a join that does not wait for the thread.
JoinReturns_nowait(j) == TRUE

\* pidef_join_thread(thread_id) on the handle of a created thread:
\* pthread_join returns once that thread has terminated.
JoinReturns(j) == ex[j].pc = "done"

\* One pass of the join loop on a handle pidef_create_thread initialised.
S_Join ==
  /\ s_pc = "join" /\ s_i < count_series_functions
  /\ thread_handlers[s_i] = "thread"
  /\ JoinReturns(s_i)
  /\ joinCalls' = [joinCalls EXCEPT ![s_i] = @ + 1]
  /\ s_i' = s_i + 1
  /\ UNCHANGED <<s_pc, s_argv, is_all_series, given_series_value,
                 given_terms_count, task, thread_handlers, ex, lines,
                 createCalls, freeCalls, violations, s_exit>>
  /\ UNCHANGED <<mcVars, chVars>>

\* What pthread_join can do with an indeterminate pthread_t (undefined
\* behaviour): fail and return at once, fault, or never return.
UninitJoinOutcomes == {"return", "crash", "hang"}

\* One pass of the join loop on a handle that was never initialised (the
\* series was skipped): the loop runs over all count_series_functions
\* handles whatever the create loop did.
S_JoinUninit ==
  /\ s_pc = "join" /\ s_i < count_series_functions
  /\ thread_handlers[s_i] = "uninit"
  /\ joinCalls' = [joinCalls EXCEPT ![s_i] = @ + 1]
  /\ \E o \in UninitJoinOutcomes :
       /\ s_pc' = CASE o = "return" -> "join"
                    [] o = "crash" -> "crashed"
                    [] OTHER -> "hung"
       /\ s_i' = IF o = "return" THEN s_i + 1 ELSE s_i
  /\ UNCHANGED <<s_argv, is_all_series, given_series_value, given_terms_count,
                 task, thread_handlers, ex, lines, createCalls, freeCalls,
                 violations, s_exit>>
  /\ UNCHANGED <<mcVars, chVars>>

\* The join loop ends: return EXIT_SUCCESS.
S_Return ==
  /\ s_pc = "join" /\ s_i = count_series_functions
  /\ s_pc' = "done" /\ s_exit' = EXIT_SUCCESS
  /\ UNCHANGED <<s_argv, is_all_series, given_series_value, given_terms_count,
                 s_i, task, thread_handlers, ex, lines, createCalls,
                 joinCalls, freeCalls, violations>>
  /\ UNCHANGED <<mcVars, chVars>>

\* ---- do_series_thread, run by the worker thread of series i

\* thread_series_data given_data = *(thread_series_data*)(data);
\* reading a task that is not live is a use after release.
W_Copy(i) ==
  /\ Alive /\ ex[i].pc = "entry"
  /\ ex' = [ex EXCEPT ![i].pc = "copied",
                      ![i].series_index = task[i].series_index,
                      ![i].terms_count = task[i].terms_count]
  /\ violations' = IF task[i].state = "live" THEN violations
                   ELSE violations \cup {<<"use_after_release", i>>}
  /\ UNCHANGED <<s_pc, s_argv, is_all_series, given_series_value,
                 given_terms_count, s_i, task, thread_handlers, lines,
                 createCalls, joinCalls, freeCalls, s_exit>>
  /\ UNCHANGED <<mcVars, chVars>>

\* (mutant) the worker forgets the free.
free_task_forgotten(i) == UNCHANGED <<freeCalls, task, violations>>

\* free(data): the task is released; releasing a task that is not live is
\* a double release.
free_task(i) ==
  /\ freeCalls' = [freeCalls EXCEPT ![i] = @ + 1]
  /\ task' = [task EXCEPT ![i].state = "freed"]
  /\ violations' = IF task[i].state = "live" THEN violations
                   ELSE violations \cup {<<"double_release", i>>}

W_Free(i) ==
  /\ Alive /\ ex[i].pc = "copied"
  /\ free_task(i)
  /\ ex' = [ex EXCEPT ![i].pc = "freed"]
  /\ UNCHANGED <<s_pc, s_argv, is_all_series, given_series_value,
                 given_terms_count, s_i, thread_handlers, lines, createCalls,
                 joinCalls, s_exit>>
  /\ UNCHANGED <<mcVars, chVars>>

\* do_series(given_data.series_index, given_data.terms_count);
W_DoSeries(i) ==
  /\ Alive /\ ex[i].pc = "freed"
  /\ ex' = [ex EXCEPT ![i] =
              do_series_call(i, ex[i].series_index, ex[i].terms_count)]
  /\ UNCHANGED <<s_pc, s_argv, is_all_series, given_series_value,
                 given_terms_count, s_i, task, thread_handlers, lines,
                 createCalls, joinCalls, freeCalls, violations, s_exit>>
  /\ UNCHANGED <<mcVars, chVars>>

\* ---- the series functions and the rest of do_series, run by executor e

\* LOOP_TERMS(expr): do expr while(--terms).  One pass: the body runs, terms
\* is decremented, and the loop ends when terms has become 0.
LoopTerms(x) ==
  LET t == LongDec(x.terms)
  IN [x EXCEPT !.iters = @ + 1, !.terms = t,
               !.pc = IF LongIsZero(t) THEN "returned" ELSE "loop"]

\* One pass of the loop of wallis_product, vietes_formula, nilakantha,
\* madhava_leibniz_formula or newton_arctan_pi (the same loop shape).
X_Loop(e) ==
  /\ Alive /\ ex[e].pc = "loop" /\ ex[e].iters < IterCap
  /\ ex' = [ex EXCEPT ![e] = LoopTerms(ex[e])]
  /\ UNCHANGED <<s_pc, s_argv, is_all_series, given_series_value,
                 given_terms_count, s_i, task, thread_handlers, lines,
                 createCalls, joinCalls, freeCalls, violations, s_exit>>
  /\ UNCHANGED <<mcVars, chVars>>

\* printf("%s result: %f (%fs)\n", ...) and the return of do_series (and,
\* in a worker, of do_series_thread: the thread terminates).
X_Print(e) ==
  /\ Alive /\ ex[e].pc = "returned"
  /\ lines' = [lines EXCEPT ![ex[e].series_index] = @ + 1]
  /\ ex' = [ex EXCEPT ![e].pc = "done"]
  /\ UNCHANGED <<s_pc, s_argv, is_all_series, given_series_value,
                 given_terms_count, s_i, task, thread_handlers, createCalls,
                 joinCalls, freeCalls, violations, s_exit>>
  /\ UNCHANGED <<mcVars, chVars>>

SerNext ==
  \/ S_Usage \/ S_Choice \/ S_Terms \/ S_Single \/ S_SingleReturn
  \/ S_SpawnSkip \/ S_Spawn \/ S_SpawnEnd \/ S_Join \/ S_JoinUninit
  \/ S_Return
  \/ \E i \in Series : W_Copy(i) \/ W_Free(i) \/ W_DoSeries(i)
  \/ \E e \in Executors : X_Loop(e) \/ X_Print(e)

(***************************************************************************)
(*                         pi_chudnovsky.c                                 *)
(***************************************************************************)
MaxB == 6
MaxDigits == 22

\* ---- exact arithmetic for the pi_flt values of a triplet.  An integer x
\* is held as its residues x mod p for 40 distinct primes p < 46341 (so a
\* product of two residues stays below 2^31).  Sum, product and negation
\* act residue by residue, and two integers of magnitude below half the
\* product of the primes (more than 10^185) are equal exactly when their
\* residues are; every value computed on a range inside [0, MaxB + 1] is
\* below 10^153 in magnitude (each unit triplet is below 10^19).
Moduli ==
  {46337, 46327, 46309, 46307, 46301, 46279, 46273, 46271,
   46261, 46237, 46229, 46219, 46199, 46187, 46183, 46181,
   46171, 46153, 46147, 46141, 46133, 46103, 46099, 46093,
   46091, 46073, 46061, 46051, 46049, 46027, 46021, 45989,
   45979, 45971, 45959, 45953, 45949, 45943, 45893, 45887}

Z(n) == [p \in Moduli |-> n % p]
ZNeg(x) == [p \in Moduli |-> (p - x[p]) % p]
ZMul(x, y) == [p \in Moduli |-> (x[p] * y[p]) % p]
ZAdd(x, y) == [p \in Moduli |-> (x[p] + y[p]) % p]

\* ---- chudnovsky_binarysplit

\* const pi_flt QabaM = 10939058860032000.0 (the literal, split at 10^9).
QabaM == ZAdd(ZMul(Z(10939058), Z(1000000000)), Z(860032000))

\* The branch b - a == 1: the triplet of the unit range [a, a+1).
BaseCase(a) ==
  LET P == IF a = 0 THEN Z(1)
           ELSE ZMul(ZMul(Z(6 * a - 5), Z(2 * a - 1)), Z(6 * a - 1))
      Q == IF a = 0 THEN Z(1) ELSE ZMul(Z(a * a * a), QabaM)
      T == ZMul(P, ZAdd(ZMul(Z(545140134), Z(a)), Z(13591409)))
  IN [Pab |-> P, Qab |-> Q, Tab |-> IF a % 2 = 1 THEN ZNeg(T) ELSE T]

\* (mutant) a split after the first element instead of in the middle.
Midpoint_first(a, b) == a + 1

\* const pi_uint m = (a + b) / (pi_uint)(2U);
Midpoint(a, b) == (a + b) \div 2

\* (mutant) Tab built with the right P instead of the left P.
Combine_rightP(am, mb) ==
  [Pab |-> ZMul(am.Pab, mb.Pab),
   Qab |-> ZMul(am.Qab, mb.Qab),
   Tab |-> ZAdd(ZMul(mb.Qab, am.Tab), ZMul(mb.Pab, mb.Tab))]

\* The else branch after both recursive calls: res from am and mb.
Combine(am, mb) ==
  [Pab |-> ZMul(am.Pab, mb.Pab),
   Qab |-> ZMul(am.Qab, mb.Qab),
   Tab |-> ZAdd(ZMul(mb.Qab, am.Tab), ZMul(am.Pab, mb.Tab))]

\* The function as a whole, for a < b.
RECURSIVE chudnovsky_binarysplit(_, _)
chudnovsky_binarysplit(a, b) ==
  IF b - a = 1 THEN BaseCase(a)
  ELSE LET m == Midpoint(a, b)
       IN Combine(chudnovsky_binarysplit(a, m), chudnovsky_binarysplit(m, b))

\* ---- the same function call by call.  A frame is one activation:
\* stage "enter" (not started), "left" (waiting for am), "right" (waiting
\* for mb, am held).
NoTriplet == [Pab |-> Z(0), Qab |-> Z(0), Tab |-> Z(0)]
Frame(a, b) == [a |-> a, b |-> b, stage |-> "enter", am |-> NoTriplet]
Running == ch_pc \in {"call_running", "main_running"}
Max(x, y) == IF x > y THEN x ELSE y

\* An activation with b - a == 1 computes its triplet and returns.
BS_Base ==
  /\ Running /\ stack # <<>>
  /\ Head(stack).stage = "enter" /\ Head(stack).b - Head(stack).a = 1
  /\ ret' = <<BaseCase(Head(stack).a)>>
  /\ baseOrder' = Append(baseOrder, Head(stack).a)
  /\ stack' = Tail(stack)
  /\ UNCHANGED <<ch_pc, ch_argv, digits, ch_a, ch_b, maxDepth, ch_printed,
                 ch_exit>>
  /\ UNCHANGED <<mcVars, serVars>>

\* An activation with b - a # 1 computes m and calls itself on [a, m).
BS_Descend ==
  /\ Running /\ stack # <<>>
  /\ Head(stack).stage = "enter" /\ Head(stack).b - Head(stack).a # 1
  /\ LET f == Head(stack)
         m == Midpoint(f.a, f.b)
     IN stack' = <<Frame(f.a, m), [f EXCEPT !.stage = "left"]>> \o Tail(stack)
  /\ maxDepth' = Max(maxDepth, Len(stack))
  /\ UNCHANGED <<ch_pc, ch_argv, digits, ch_a, ch_b, ret, baseOrder,
                 ch_printed, ch_exit>>
  /\ UNCHANGED <<mcVars, serVars>>

\* The call on [a, m) has returned am; the activation calls itself on [m, b).
BS_LeftReturned ==
  /\ Running /\ stack # <<>>
  /\ Head(stack).stage = "left" /\ ret # <<>>
  /\ LET f == Head(stack)
         m == Midpoint(f.a, f.b)
     IN stack' = <<Frame(m, f.b), [f EXCEPT !.stage = "right", !.am = ret[1]]>>
                   \o Tail(stack)
  /\ ret' = <<>>
  /\ maxDepth' = Max(maxDepth, Len(stack))
  /\ UNCHANGED <<ch_pc, ch_argv, digits, ch_a, ch_b, baseOrder, ch_printed,
                 ch_exit>>
  /\ UNCHANGED <<mcVars, serVars>>

\* The call on [m, b) has returned mb; the activation combines and returns.
BS_Combine ==
  /\ Running /\ stack # <<>>
  /\ Head(stack).stage = "right" /\ ret # <<>>
  /\ ret' = <<Combine(Head(stack).am, ret[1])>>
  /\ stack' = Tail(stack)
  /\ UNCHANGED <<ch_pc, ch_argv, digits, ch_a, ch_b, baseOrder, maxDepth,
                 ch_printed, ch_exit>>
  /\ UNCHANGED <<mcVars, serVars>>

\* ---- the function called directly on a range [a, b), 0 <= a < b <= MaxB
SplitInit ==
  /\ ch_pc = "call" /\ ch_argv = None /\ digits = 0
  /\ ch_a \in 0..MaxB /\ ch_b \in 0..MaxB /\ ch_a < ch_b
  /\ stack = <<>> /\ ret = <<>> /\ baseOrder = <<>> /\ maxDepth = 0
  /\ ch_printed = FALSE /\ ch_exit = -1

Split_Call ==
  /\ ch_pc = "call"
  /\ stack' = <<Frame(ch_a, ch_b)>>
  /\ ch_pc' = "call_running"
  /\ UNCHANGED <<ch_argv, digits, ch_a, ch_b, ret, baseOrder, maxDepth,
                 ch_printed, ch_exit>>
  /\ UNCHANGED <<mcVars, serVars>>

Split_Return ==
  /\ ch_pc = "call_running" /\ stack = <<>> /\ ret # <<>>
  /\ ch_pc' = "done"
  /\ UNCHANGED <<ch_argv, digits, ch_a, ch_b, stack, ret, baseOrder,
                 maxDepth, ch_printed, ch_exit>>
  /\ UNCHANGED <<mcVars, serVars>>

SplitNext == Split_Call \/ BS_Base \/ BS_Descend \/ BS_LeftReturned
             \/ BS_Combine \/ Split_Return

\* ---- main
ChInit ==
  /\ ch_pc = "start"
  /\ ch_argv \in [argc : {1, 2}, malformed : BOOLEAN,
                  value : (-MaxDigits)..MaxDigits]
  /\ ch_argv.malformed => ch_argv.value = 0
  /\ digits = 0 /\ ch_a = 0 /\ ch_b = 0
  /\ stack = <<>> /\ ret = <<>> /\ baseOrder = <<>> /\ maxDepth = 0
  /\ ch_printed = FALSE /\ ch_exit = -1

\* strtol(argv[1], NULL, 10): 0 when the argument holds no number.
Strtol(arg) == IF arg.malformed THEN 0 ELSE arg.value

\* if (argc != 2) { usage; return EXIT_FAILURE; }
CH_Usage ==
  /\ ch_pc = "start" /\ ch_argv.argc # 2
  /\ ch_pc' = "done" /\ ch_exit' = EXIT_FAILURE
  /\ UNCHANGED <<ch_argv, digits, ch_a, ch_b, stack, ret, baseOrder,
                 maxDepth, ch_printed>>
  /\ UNCHANGED <<mcVars, serVars>>

\* The test main makes before it computes: if (digits < 0) refuse.
DigitsRefused(d) == d < 0

\* const long digits = strtol(argv[1], NULL, 10) * 2; and its validation.
CH_Parse ==
  /\ ch_pc = "start" /\ ch_argv.argc = 2
  /\ digits' = Strtol(ch_argv) * 2
  /\ IF DigitsRefused(digits')
     THEN ch_pc' = "done" /\ ch_exit' = EXIT_FAILURE
     ELSE ch_pc' = "validated" /\ ch_exit' = ch_exit
  /\ UNCHANGED <<ch_argv, ch_a, ch_b, stack, ret, baseOrder, maxDepth,
                 ch_printed>>
  /\ UNCHANGED <<mcVars, serVars>>

\* (pi_uint)((pi_flt)digits / 14.181647462725477) + (pi_uint)(1U): the
\* quotient truncated, with the divisor cut to 14.181647 (the same integer
\* for every digits the model draws).
TermsFor(d) == ((d * 1000000) \div 14181647) + 1

\* The call chudnovsky_binarysplit(0, terms).
CH_Call ==
  /\ ch_pc = "validated"
  /\ ch_a' = 0 /\ ch_b' = TermsFor(digits)
  /\ stack' = <<Frame(0, TermsFor(digits))>>
  /\ ch_pc' = "main_running"
  /\ UNCHANGED <<ch_argv, digits, ret, baseOrder, maxDepth, ch_printed,
                 ch_exit>>
  /\ UNCHANGED <<mcVars, serVars>>

\* The closing formula on res, the printf of the approximation line and
\* return EXIT_SUCCESS.
CH_Print ==
  /\ ch_pc = "main_running" /\ stack = <<>> /\ ret # <<>>
  /\ ch_printed' = TRUE
  /\ ch_pc' = "done" /\ ch_exit' = EXIT_SUCCESS
  /\ UNCHANGED <<ch_argv, digits, ch_a, ch_b, stack, ret, baseOrder,
                 maxDepth>>
  /\ UNCHANGED <<mcVars, serVars>>

ChNext == CH_Usage \/ CH_Parse \/ CH_Call \/ BS_Base \/ BS_Descend
          \/ BS_LeftReturned \/ BS_Combine \/ CH_Print

(***************************************************************************)
(*                         Specifications                                  *)
(***************************************************************************)
ChIdle ==
  /\ ch_pc = "idle" /\ ch_argv = None /\ digits = 0 /\ ch_a = 0 /\ ch_b = 0
  /\ stack = <<>> /\ ret = <<>> /\ baseOrder = <<>> /\ maxDepth = 0
  /\ ch_printed = FALSE /\ ch_exit = -1

InitMC == McInit /\ SerIdle /\ ChIdle
SpecMC == InitMC /\ [][McNext]_vars

InitSeries == SerInit /\ McIdle /\ ChIdle
SpecSeries == InitSeries /\ [][SerNext]_vars

InitSplit == SplitInit /\ McIdle /\ SerIdle
SpecSplit == InitSplit /\ [][SplitNext]_vars
\* The call runs on its own thread of control and is always scheduled.
SpecSplitFair == SpecSplit /\ WF_vars(SplitNext)

InitChud == ChInit /\ McIdle /\ SerIdle
SpecChud == InitChud /\ [][ChNext]_vars

(***************************************************************************)
(*                         Properties                                      *)
(***************************************************************************)

\* main of pi_mcarlo.c has passed the creation of the workers and has not
\* failed.
McPastCreation ==
  mc_pc \in {"sampling", "report"} \/ (mc_pc = "done" /\ mc_exit = EXIT_SUCCESS)

\* C1: for every thread count K >= 1 main creates exactly K-1 workers,
\* worker i bound to slot i (0 <= i < K-1), and samples itself into slot
\* K-1; so with K >= 2 at least one worker is created.
C1_WorkersCreated ==
  McPastCreation =>
    /\ mc_workers = 0..(num_threads - 2)
    /\ mc_local = num_threads - 1
    /\ (num_threads >= 2 => mc_workers # {})

\* C2: the totals reported after the reduction satisfy
\* interior + exterior = K * N.
C2_TotalsAddUp ==
  (mc_pc = "done" /\ mc_exit = EXIT_SUCCESS) =>
    mc_out[1].inside + mc_out[1].outside = num_threads * num_iterations

\* The thread a slot belongs to: the worker it is handed to at creation,
\* main for the last slot.
SlotOwner(s) == IF s = num_threads - 1 THEN MainThread ELSE Worker(s)

\* C3: each slot is written by exactly one thread, its owner (the worker it
\* was handed to, or main for the last slot): never by another thread, and
\* by its owner once the sampling of N >= 1 points is over.
C3_SlotOwnership ==
  McPastCreation =>
    \A s \in 0..(num_threads - 1) :
      /\ mc_writers[s] \subseteq {SlotOwner(s)}
      /\ (mc_pc = "done" /\ num_iterations >= 1) => mc_writers[s] = {SlotOwner(s)}

\* main of pi_infseries.c has returned EXIT_SUCCESS from all mode.
AllModeReturned == s_pc = "done" /\ s_exit = EXIT_SUCCESS /\ is_all_series
\* No malloc of the create loop has failed so far.
NoAllocFailed == \A i \in Series : task[i].state # "failed"

\* C4: in all mode with every allocation succeeding, when main returns it
\* has created exactly one worker per series index 0..4, every one of them
\* has terminated, and exactly one result line per series was printed.
C4_AllModeFiveLines ==
  (AllModeReturned /\ NoAllocFailed) =>
    \A i \in Series :
      /\ createCalls[i] = 1
      /\ ex[i].pc = "done" /\ ex[i].series_index = i
      /\ joinCalls[i] = 1
      /\ lines[i] = 1

C4_Witness ==
  /\ AllModeReturned /\ NoAllocFailed
  /\ \A i \in Series : lines[i] = 1 /\ ex[i].iters = MaxTerms

\* C5: in all mode, pidef_join_thread is called only on handles that a
\* preceding pidef_create_thread initialised, each exactly once, and when
\* some allocations fail every other series is still created, run and
\* joined by the time main returns.
C5_JoinOnlyCreated ==
  is_all_series =>
    /\ \A j \in Series :
         joinCalls[j] > 0 =>
           thread_handlers[j] = "thread" /\ createCalls[j] = 1 /\ joinCalls[j] = 1
    /\ AllModeReturned =>
         \A i \in Series :
           task[i].state # "failed" =>
             createCalls[i] = 1 /\ ex[i].pc = "done" /\ joinCalls[i] = 1

\* C6: every task handed to a created worker is released exactly once, by
\* that worker, after it has copied series_index and terms_count and
\* before it runs the series; no task is read after its release, released
\* twice, or still unreleased when main returns.
C6_TaskReleasedOnce ==
  is_all_series =>
    /\ violations = {}
    /\ \A i \in Series :
         /\ freeCalls[i] <= 1
         /\ ex[i].pc = "entry" =>
              /\ task[i] = [state |-> "live", series_index |-> i,
                            terms_count |-> given_terms_count]
              /\ freeCalls[i] = 0
         /\ ex[i].pc = "copied" => task[i].state = "live" /\ freeCalls[i] = 0
         /\ ex[i].pc \in {"copied", "freed", "loop", "returned", "done"} =>
              ex[i].series_index = i /\ ex[i].terms_count = given_terms_count
         /\ ex[i].pc \in {"freed", "loop", "returned", "done"} =>
              task[i].state = "freed" /\ freeCalls[i] = 1
         /\ AllModeReturned => task[i].state \in {"failed", "freed"}

C6_Witness ==
  /\ AllModeReturned
  /\ \E i \in Series : freeCalls[i] = 1 /\ ex[i].pc = "done"
  /\ \E i \in Series : task[i].state = "failed"

\* C9: for every accepted term count N, in single and in all mode, the
\* series function is called with terms = N, and its loop body runs exactly
\* N times before it returns.
C9_TermsPreserved ==
  \A e \in Executors :
    /\ ex[e].pc \in {"loop", "returned", "done"} =>
         ex[e].callTerms = given_terms_count
    /\ ex[e].pc \in {"returned", "done"} =>
         LongOfNat(ex[e].iters) = given_terms_count

\* The merge of two adjacent triplets as the claim states it.
ClaimMerge(l, r) ==
  [Pab |-> ZMul(l.Pab, r.Pab),
   Qab |-> ZMul(l.Qab, r.Qab),
   Tab |-> ZAdd(ZMul(r.Qab, l.Tab), ZMul(l.Pab, r.Tab))]

\* The unit ranges [a,a+1), ..., [b-1,b) merged pairwise left to right.
RECURSIVE LeftFold(_, _)
LeftFold(a, b) ==
  IF b - a = 1 THEN chudnovsky_binarysplit(a, a + 1)
  ELSE ClaimMerge(LeftFold(a, b - 1), chudnovsky_binarysplit(b - 1, b))

\* C7: for every range a < b and every split point a < m < b, merging
\* chudnovsky_binarysplit(a, m) and chudnovsky_binarysplit(m, b) gives the
\* triplet chudnovsky_binarysplit(a, b) returns, which is also the
\* left-to-right merge of the unit ranges.
C7_SplitPointIndependent ==
  ch_pc = "done" =>
    /\ ret[1] = chudnovsky_binarysplit(ch_a, ch_b)
    /\ \A m \in (ch_a + 1)..(ch_b - 1) :
         ClaimMerge(chudnovsky_binarysplit(ch_a, m),
                    chudnovsky_binarysplit(m, ch_b)) = ret[1]
    /\ LeftFold(ch_a, ch_b) = ret[1]

C7_Witness ==
  /\ ch_pc = "done" /\ ch_a = 1 /\ ch_b - ch_a >= 4
  /\ ret # <<>>

\* C8: the program exits with status 1 without computing whenever the digit
\* count is malformed or parses to a value <= 0, and exits with status 0
\* after printing the approximation only when the parsed count is > 0.
C8_NonPositiveRefused ==
  (ch_pc = "done" /\ ch_argv.argc = 2) =>
    IF ch_argv.malformed \/ Strtol(ch_argv) <= 0
    THEN ch_exit = EXIT_FAILURE /\ ~ch_printed /\ baseOrder = <<>>
    ELSE ch_exit = EXIT_SUCCESS /\ ch_printed

RECURSIVE CeilLog2(_)
CeilLog2(n) == IF n <= 1 THEN 0 ELSE 1 + CeilLog2((n + 1) \div 2)

\* The state part of C10.
C10_Inv ==
  ch_pc \in {"call_running", "done"} =>
    \* every call is on a range inside [a, b), and inside its caller's
    /\ \A k \in 1..Len(stack) :
         /\ ch_a <= stack[k].a /\ stack[k].a < stack[k].b /\ stack[k].b <= ch_b
         /\ k < Len(stack) =>
              stack[k + 1].a <= stack[k].a /\ stack[k].b <= stack[k + 1].b
         /\ stack[k].b - stack[k].a >= 2 =>
              /\ stack[k].a < Midpoint(stack[k].a, stack[k].b)
              /\ Midpoint(stack[k].a, stack[k].b) < stack[k].b
    \* the base cases so far are a, a+1, ... in this order
    /\ Len(baseOrder) <= ch_b - ch_a
    /\ \A k \in 1..Len(baseOrder) : baseOrder[k] = ch_a + k - 1
    /\ ch_pc = "done" => Len(baseOrder) = ch_b - ch_a
    /\ maxDepth <= CeilLog2(ch_b - ch_a)

\* C10: for every 0 <= a < b the call terminates; every recursive call is
\* on a range inside [a, b) with a < m < b; the base case is evaluated once
\* for each integer of [a, b), in increasing order; and the recursion depth
\* is at most ceil(log2(b - a)).
C10_Recursion == [](C10_Inv) /\ <>(ch_pc = "done")

C10_Witness ==
  /\ ch_pc = "done" /\ ch_b - ch_a = 5
  /\ maxDepth = 3 /\ Len(baseOrder) = 5

=============================================================================
